---- MODULE Spec2Model ----
(***************************************************************************)
(* Model of src/vue/src/components/RouteAnimation.vue: the animation       *)
(* scheduler (toggleAnimation / startAnimation / stopAnimation /           *)
(* resetAnimation / animate), the two Vue watchers that drive it, and the  *)
(* capture pipeline (startRecording / stopRecording, the MediaRecorder     *)
(* callbacks and the capture interval).                                    *)
(*                                                                         *)
(* One action is one event-loop task: the handler (a click, a frame tick,  *)
(* a timer tick, an encoder event) followed by the flush of the watcher    *)
(* jobs it queued, which Vue runs in the microtask right after the handler *)
(* and before any other task.                                              *)
(*                                                                         *)
(* JavaScript numbers are modelled as exact rationals plus NaN and         *)
(* Infinity; null and undefined are separate values.  Leaflet objects (the *)
(* map, the marker position, the polylines) and the pixels of the          *)
(* recording canvas are outside the model; movingIconMarker only records   *)
(* whether the marker has been created.                                    *)
(***************************************************************************)
EXTENDS Integers, Sequences, FiniteSets, TLC

(***************************************************************************)
(* Bounds of the model.                                                    *)
(***************************************************************************)
\* frame timestamps (ms) run from 1 to MaxTime
MaxTime == 5
\* a frame tick arrives 1..MaxStep ms after the previous frame
MaxStep == 2
\* number of MediaRecorder objects created in one behaviour
MaxSessions == 2
\* html2canvas snapshots in flight at once
MaxSnapshots == 1
\* the geometry functions are applied to paths of up to MaxPathLen points
MaxPathLen == 3
\* ... whose latitudes are 0..MaxCoord
MaxCoord == 2
\* ... at the distances k / DistDenom
DistDenom == 2

(***************************************************************************)
(* JavaScript values.                                                      *)
(***************************************************************************)
Null == [t |-> "null"]
Undefined == [t |-> "undefined"]
NaN == [t |-> "NaN"]
Infinity == [t |-> "Infinity"]

Abs(i) == IF i < 0 THEN -i ELSE i

RECURSIVE GCD(_, _)
GCD(a, b) == IF b = 0 THEN a ELSE GCD(b, a % b)

\* the number n/d (d > 0), in lowest terms
Rat(n, d) ==
  LET g == GCD(Abs(n), d)
  IN [t |-> "num", n |-> n \div g, d |-> d \div g]

Num(n) == Rat(n, 1)

IsNum(x) == x.t = "num"

\* ToNumber: undefined -> NaN, null -> 0
ToNumber(x) ==
  IF x.t = "undefined" THEN NaN
  ELSE IF x.t = "null" THEN Num(0)
  ELSE x

\* !x is true for null, undefined, NaN and 0
Falsy(x) == x.t \in {"null", "undefined", "NaN"} \/ (IsNum(x) /\ x.n = 0)

\* a - b
Sub(a, b) ==
  LET x == ToNumber(a)
      y == ToNumber(b)
  IN IF x.t = "NaN" \/ y.t = "NaN" THEN NaN
     ELSE IF x.t = "Infinity" THEN (IF y.t = "Infinity" THEN NaN ELSE Infinity)
     ELSE IF y.t = "Infinity" THEN NaN
     ELSE Rat(x.n * y.d - y.n * x.d, x.d * y.d)

\* a * b for operands >= 0 or finite
Mul(a, b) ==
  LET x == ToNumber(a)
      y == ToNumber(b)
  IN IF x.t = "NaN" \/ y.t = "NaN" THEN NaN
     ELSE IF x.t = "Infinity" THEN (IF IsNum(y) /\ y.n = 0 THEN NaN ELSE Infinity)
     ELSE IF y.t = "Infinity" THEN (IF x.n = 0 THEN NaN ELSE Infinity)
     ELSE Rat(x.n * y.n, x.d * y.d)

\* a / b for a >= 0, b >= 0: 0/0 is NaN, x/0 is Infinity for x > 0
Div(a, b) ==
  LET x == ToNumber(a)
      y == ToNumber(b)
  IN IF x.t = "NaN" \/ y.t = "NaN" THEN NaN
     ELSE IF x.t = "Infinity" THEN (IF y.t = "Infinity" THEN NaN ELSE Infinity)
     ELSE IF y.t = "Infinity" THEN Num(0)
     ELSE IF y.n = 0 THEN (IF x.n = 0 THEN NaN ELSE Infinity)
     ELSE Rat(x.n * y.d, x.d * y.n)

\* a <= b; every comparison with NaN is false
Le(a, b) ==
  LET x == ToNumber(a)
      y == ToNumber(b)
  IN IF x.t = "NaN" \/ y.t = "NaN" THEN FALSE
     ELSE IF y.t = "Infinity" THEN TRUE
     ELSE IF x.t = "Infinity" THEN FALSE
     ELSE x.n * y.d <= y.n * x.d

\* a >= b
Ge(a, b) == Le(b, a)

\* Math.min(a, b): NaN if either operand is NaN
MathMin(a, b) ==
  LET x == ToNumber(a)
      y == ToNumber(b)
  IN IF x.t = "NaN" \/ y.t = "NaN" THEN NaN
     ELSE IF Le(x, y) THEN x ELSE y

(***************************************************************************)
(* Routes.  A coordinate is [lat, lng] in metres on a plane, and distanceTo *)
(* is the taxicab distance: a metric standing in for Leaflet's great-circle *)
(* distance.                                                               *)
(***************************************************************************)
LatLng(lat, lng) == [lat |-> lat, lng |-> lng]

distanceTo(a, b) == Abs(a.lat - b.lat) + Abs(a.lng - b.lng)

\* the LineString features of the loaded data: a route of three points and
\* 20 m, a route of a single point, and a route of two equal points
routeFeatures ==
  << << LatLng(0, 0), LatLng(0, 10), LatLng(0, 20) >>,
     << LatLng(5, 5) >>,
     << LatLng(7, 7), LatLng(7, 7) >> >>

\* the values of the speed slider used by the model (km/h)
Speeds == {90, 145, 180}

RECURSIVE SumSegments(_, _)
SumSegments(latLngs, i) ==
  IF i >= Len(latLngs) THEN 0
  ELSE distanceTo(latLngs[i], latLngs[i + 1]) + SumSegments(latLngs, i + 1)

calculateTotalDistance(latLngs) == SumSegments(latLngs, 1)

kmPerHourToMetersPerMs(kmh) == Rat(kmh * 1000, 3600)

\* the pacing multiplier 0.2 of animate
PacingMultiplier == Rat(2, 10)

(***************************************************************************)
(* State.                                                                  *)
(***************************************************************************)
VARIABLES
  mounted,             \* FALSE once onBeforeUnmount has run
  captureSupported,    \* whether new MediaRecorder(...) succeeds in this browser
  now,                 \* timestamp of the latest frame tick (ms)
  isAnimating,
  selectedRouteIndex,
  animationSpeed,
  animationFrameId,    \* "null" or "id"
  framePending,        \* a requestAnimationFrame callback is registered
  progress,
  startTime,
  totalRouteDistance,
  movingIconMarker,    \* TRUE once createMovingIcon has created the marker
  recordingCanvas,     \* "null", "blank" or "drawn"
  recordedChunks,      \* sequence of chunks, a chunk named by its recorder
  mediaRecorder,       \* 0 for null, else the number of the latest recorder
  recorders,           \* state of each MediaRecorder created so far
  downloadUrl,         \* <<>> for null, else <<blob>>, blob a sequence of chunks
  isRecording,
  captureInterval,     \* "null", "active" or "cleared": the timer of the handle
  activeTimers,        \* number of interval timers that are ticking
  snapshotsPending,    \* html2canvas promises not yet resolved
  error,
  lastOp,              \* history: the task that ran last
  pausedProgress,      \* history: <<p>> from a pause until the first frame after it
  quickReset,          \* history: a start was reset at once, and no start since
  calc                 \* the latest application of a pure function: inputs and result

progVars ==
  << mounted, captureSupported, now, isAnimating, selectedRouteIndex,
     animationSpeed, animationFrameId, framePending, progress, startTime,
     totalRouteDistance, movingIconMarker, recordingCanvas, recordedChunks,
     mediaRecorder, recorders, downloadUrl, isRecording, captureInterval,
     activeTimers, snapshotsPending, error >>

vars == << progVars, lastOp, pausedProgress, quickReset, calc >>

selectedRouteCoordinatesOf(index) ==
  IF index \in 1..Len(routeFeatures) THEN routeFeatures[index] ELSE << >>

selectedRouteCoordinates == selectedRouteCoordinatesOf(selectedRouteIndex)

\* The component's state as one record, so that a handler is a function
\* from state to state.  queue, oldValue and threw exist only inside a task:
\* the watcher jobs waiting for the flush, the value the isAnimating watcher
\* saw last, and an exception on its way up the stack.
Cur ==
  [ isAnimating |-> isAnimating,
    selectedRouteIndex |-> selectedRouteIndex,
    animationSpeed |-> animationSpeed,
    animationFrameId |-> animationFrameId,
    framePending |-> framePending,
    progress |-> progress,
    startTime |-> startTime,
    totalRouteDistance |-> totalRouteDistance,
    movingIconMarker |-> movingIconMarker,
    recordingCanvas |-> recordingCanvas,
    recordedChunks |-> recordedChunks,
    mediaRecorder |-> mediaRecorder,
    recorders |-> recorders,
    downloadUrl |-> downloadUrl,
    isRecording |-> isRecording,
    captureInterval |-> captureInterval,
    activeTimers |-> activeTimers,
    captureSupported |-> captureSupported,
    queue |-> {},
    oldValue |-> isAnimating,
    threw |-> FALSE ]

Commit(s) ==
  /\ isAnimating' = s.isAnimating
  /\ selectedRouteIndex' = s.selectedRouteIndex
  /\ animationSpeed' = s.animationSpeed
  /\ animationFrameId' = s.animationFrameId
  /\ framePending' = s.framePending
  /\ progress' = s.progress
  /\ startTime' = s.startTime
  /\ totalRouteDistance' = s.totalRouteDistance
  /\ movingIconMarker' = s.movingIconMarker
  /\ recordingCanvas' = s.recordingCanvas
  /\ recordedChunks' = s.recordedChunks
  /\ mediaRecorder' = s.mediaRecorder
  /\ recorders' = s.recorders
  /\ downloadUrl' = s.downloadUrl
  /\ isRecording' = s.isRecording
  /\ captureInterval' = s.captureInterval
  /\ activeTimers' = s.activeTimers

coordsOf(s) == selectedRouteCoordinatesOf(s.selectedRouteIndex)

\* isAnimating.value = v: a ref that changes queues the job of its watcher
SetIsAnimating(s, v) ==
  IF s.isAnimating = v THEN s
  ELSE [s EXCEPT !.isAnimating = v, !.queue = @ \cup {"isAnimating"}]

(***************************************************************************)
(* Capture pipeline.                                                       *)
(***************************************************************************)
\* startRecording without the isRecording check of line 143
startRecordingNoGuard(s) ==
  LET s1 == [s EXCEPT !.recordingCanvas = "blank", !.recordedChunks = << >>]
  IN IF ~s.captureSupported THEN [s1 EXCEPT !.threw = TRUE]
     ELSE [s1 EXCEPT !.mediaRecorder = @ + 1,
                     !.recorders =
                       [r \in DOMAIN @ |->
                          IF r = s.mediaRecorder + 1 THEN "recording" ELSE @[r]],
                     !.isRecording = TRUE,
                     !.captureInterval = "active",
                     !.activeTimers = @ + 1]

\* Lines 141-173.  mapContainer is set while the component is mounted, so
\* the early return is taken exactly when isRecording is set.  Without
\* capture support the MediaRecorder constructor of line 152 throws, after
\* the canvas was created and recordedChunks was emptied.
startRecording(s) ==
  IF s.isRecording THEN s
  ELSE
    LET s1 == [s EXCEPT !.recordingCanvas = "blank", !.recordedChunks = << >>]
    IN IF ~s.captureSupported THEN [s1 EXCEPT !.threw = TRUE]
       ELSE [s1 EXCEPT !.mediaRecorder = @ + 1,
                       !.recorders[s.mediaRecorder + 1] = "recording",
                       !.isRecording = TRUE,
                       !.captureInterval = "active",
                       !.activeTimers = @ + 1]

\* stopRecording that builds and publishes the blob itself, without waiting
\* for the recorder's stop event
stopRecordingPublishes(s) ==
  IF s.mediaRecorder # 0 /\ s.isRecording
  THEN [s EXCEPT !.activeTimers =
                   IF s.captureInterval = "active" THEN @ - 1 ELSE @,
                 !.captureInterval =
                   IF @ = "active" THEN "cleared" ELSE @,
                 !.recorders[s.mediaRecorder] = "stopping",
                 !.isRecording = FALSE,
                 !.downloadUrl = << s.recordedChunks >>]
  ELSE s

\* Lines 175-181.  clearInterval ends the timer the handle names, and
\* MediaRecorder.stop() leaves the recorder finalizing: its dataavailable
\* and stop events are delivered by a later task.
stopRecording(s) ==
  IF s.mediaRecorder # 0 /\ s.isRecording
  THEN [s EXCEPT !.activeTimers =
                   IF s.captureInterval = "active" THEN @ - 1 ELSE @,
                 !.captureInterval =
                   IF @ = "active" THEN "cleared" ELSE @,
                 !.recorders[s.mediaRecorder] = "stopping",
                 !.isRecording = FALSE]
  ELSE s

(***************************************************************************)
(* Animation scheduler.                                                    *)
(***************************************************************************)
\* Lines 250-256.  cancelAnimationFrame of an id that has fired is a no-op.
stopAnimation(s) ==
  IF s.animationFrameId # "null"
  THEN [s EXCEPT !.framePending = FALSE,
                 !.animationFrameId = "null",
                 !.startTime = Num(0)]
  ELSE s

\* resetAnimation without its stopRecording call
resetAnimationNoStop(s) ==
  LET s2 == SetIsAnimating(s, FALSE)
  IN [s2 EXCEPT !.progress = Num(0),
                !.startTime = Null,
                !.downloadUrl = << >>]

\* Lines 258-274.
resetAnimation(s) ==
  LET s1 == stopRecording(s)
      s2 == SetIsAnimating(s1, FALSE)
  IN [s2 EXCEPT !.progress = Num(0),
                !.startTime = Null,
                !.downloadUrl = << >>]

\* animate without the stopRecording call of its completion branch
animateNoStop(s, timestamp) ==
  IF ~s.isAnimating THEN s
  ELSE
    LET start == IF Falsy(s.startTime) THEN timestamp ELSE s.startTime
        elapsed == Sub(timestamp, start)
        totalDist == calculateTotalDistance(coordsOf(s))
        effectiveSpeed ==
          Mul(kmPerHourToMetersPerMs(s.animationSpeed), PacingMultiplier)
        estimatedDuration == Div(Num(totalDist), effectiveSpeed)
        p == MathMin(Div(elapsed, estimatedDuration), Num(1))
        s1 == [s EXCEPT !.startTime = start, !.progress = p]
    IN IF Ge(p, Num(1))
       THEN [SetIsAnimating(s1, FALSE) EXCEPT !.startTime = Null]
       ELSE [s1 EXCEPT !.animationFrameId = "id", !.framePending = TRUE]

\* animate with progress > 1 for progress >= 1 as the test of completion
animateStrictCompare(s, timestamp) ==
  IF ~s.isAnimating THEN s
  ELSE
    LET start == IF Falsy(s.startTime) THEN timestamp ELSE s.startTime
        elapsed == Sub(timestamp, start)
        totalDist == calculateTotalDistance(coordsOf(s))
        speed == s.animationSpeed
        speedMetersPerMs == kmPerHourToMetersPerMs(speed)
        effectiveSpeed == Mul(speedMetersPerMs, PacingMultiplier)
        estimatedDuration == Div(Num(totalDist), effectiveSpeed)
        p == MathMin(Div(elapsed, estimatedDuration), Num(1))
        s1 == [s EXCEPT !.startTime = start, !.progress = p]
    IN IF Ge(p, Num(1)) /\ p # Num(1)
       THEN stopRecording([SetIsAnimating(s1, FALSE) EXCEPT !.startTime = Null])
       ELSE [s1 EXCEPT !.animationFrameId = "id", !.framePending = TRUE]

\* Lines 280-306.
animate(s, timestamp) ==
  IF ~s.isAnimating THEN s
  ELSE
    LET start == IF Falsy(s.startTime) THEN timestamp ELSE s.startTime
        elapsed == Sub(timestamp, start)
        totalDist == calculateTotalDistance(coordsOf(s))
        speed == s.animationSpeed
        speedMetersPerMs == kmPerHourToMetersPerMs(speed)
        effectiveSpeed == Mul(speedMetersPerMs, PacingMultiplier)
        estimatedDuration == Div(Num(totalDist), effectiveSpeed)
        p == MathMin(Div(elapsed, estimatedDuration), Num(1))
        s1 == [s EXCEPT !.startTime = start, !.progress = p]
    IN IF Ge(p, Num(1))
       THEN stopRecording([SetIsAnimating(s1, FALSE) EXCEPT !.startTime = Null])
       ELSE [s1 EXCEPT !.animationFrameId = "id", !.framePending = TRUE]

\* Lines 333-348.
createMovingIcon(s) == resetAnimation([s EXCEPT !.movingIconMarker = TRUE])

\* startAnimation without the check of the route's length
startAnimationNoCheck(s) ==
  LET s1 == IF ~s.movingIconMarker THEN createMovingIcon(s) ELSE s
      s2 == [s1 EXCEPT !.downloadUrl = << >>]
      s3 == startRecording(s2)
  IN IF s3.threw THEN s3 ELSE animate(s3, Undefined)

\* Lines 239-248.  An exception of startRecording leaves startAnimation
\* before animate() is called.
startAnimation(s) ==
  IF Len(coordsOf(s)) < 2 THEN SetIsAnimating(s, FALSE)
  ELSE
    LET s1 == IF ~s.movingIconMarker THEN createMovingIcon(s) ELSE s
        s2 == [s1 EXCEPT !.downloadUrl = << >>]
        s3 == startRecording(s2)
    IN IF s3.threw THEN s3 ELSE animate(s3, Undefined)

\* Lines 211-235: of updateSelectedRouteDisplay only totalRouteDistance is
\* component state, the rest restyles Leaflet layers.
updateSelectedRouteDisplay(s) ==
  [s EXCEPT !.totalRouteDistance = calculateTotalDistance(coordsOf(s))]

(***************************************************************************)
(* Watchers.                                                               *)
(***************************************************************************)
\* the selectedRouteIndex watcher without its resetAnimation call
watchSelectedRouteIndexNoReset(s) ==
  updateSelectedRouteDisplay([s EXCEPT !.queue = @ \ {"selectedRouteIndex"}])

\* Lines 121-124.
watchSelectedRouteIndex(s) ==
  updateSelectedRouteDisplay(
    resetAnimation([s EXCEPT !.queue = @ \ {"selectedRouteIndex"}]))

\* Lines 126-129.  The job calls the callback only if the value differs from
\* the one it saw last; an exception of the callback is caught and logged by
\* Vue's error handling.
watchIsAnimating(s) ==
  LET s0 == [s EXCEPT !.queue = @ \ {"isAnimating"}]
      isNowAnimating == s.isAnimating
  IN IF isNowAnimating = s.oldValue THEN s0
     ELSE LET r == IF isNowAnimating THEN startAnimation(s0)
                   ELSE stopAnimation(s0)
          IN [r EXCEPT !.oldValue = isNowAnimating, !.threw = FALSE]

\* The flush of the queued watcher jobs, in the order of their creation.
RECURSIVE flushJobs(_)
flushJobs(s) ==
  IF "selectedRouteIndex" \in s.queue THEN flushJobs(watchSelectedRouteIndex(s))
  ELSE IF "isAnimating" \in s.queue THEN flushJobs(watchIsAnimating(s))
  ELSE s

(***************************************************************************)
(* Initial state: the component is mounted, the data is loaded, the first  *)
(* route (index 0 in the source, 1 here) is selected and displayed.        *)
(***************************************************************************)
\* the component after setup and onMounted
Created ==
  /\ mounted = TRUE
  /\ captureSupported \in BOOLEAN
  /\ now = 0
  /\ isAnimating = FALSE
  /\ selectedRouteIndex = 1
  /\ animationSpeed = 145
  /\ animationFrameId = "null"
  /\ framePending = FALSE
  /\ progress = Num(0)
  /\ startTime = Null
  /\ totalRouteDistance = calculateTotalDistance(routeFeatures[1])
  /\ movingIconMarker = FALSE
  /\ recordingCanvas = "null"
  /\ recordedChunks = << >>
  /\ mediaRecorder = 0
  /\ recorders = [r \in 1..MaxSessions |-> "none"]
  /\ downloadUrl = << >>
  /\ isRecording = FALSE
  /\ captureInterval = "null"
  /\ activeTimers = 0
  /\ snapshotsPending = 0
  /\ error = "null"
  /\ lastOp = "init"
  /\ pausedProgress = << >>
  /\ quickReset = FALSE

Init ==
  /\ Created
  /\ calc = [op |-> "none"]

(***************************************************************************)
(* Tasks.                                                                  *)
(***************************************************************************)
\* a start that gets past the length check of startAnimation
StartsRun == ~isAnimating /\ Len(selectedRouteCoordinates) >= 2

\* Click on the play/pause button (line 20; the button is disabled on an
\* empty route): toggleAnimation, then the isAnimating watcher.
ToggleAnimation ==
  /\ mounted
  /\ Len(selectedRouteCoordinates) > 0
  /\ (StartsRun /\ captureSupported /\ (~isRecording \/ ~movingIconMarker))
       => mediaRecorder < MaxSessions
  /\ Commit(flushJobs(SetIsAnimating(Cur, ~isAnimating)))
  /\ UNCHANGED calc
  /\ lastOp' = IF isAnimating THEN "pause"
               ELSE IF StartsRun THEN "start" ELSE "startRefused"
  /\ pausedProgress' = IF isAnimating THEN << progress >> ELSE pausedProgress
  /\ quickReset' = IF StartsRun THEN FALSE ELSE quickReset
  /\ UNCHANGED << mounted, captureSupported, now, snapshotsPending, error >>

\* Click on the reset button (line 30): resetAnimation, then the watcher.
ResetAnimation ==
  /\ mounted
  /\ Len(selectedRouteCoordinates) > 0
  /\ Commit(flushJobs(resetAnimation(Cur)))
  /\ UNCHANGED calc
  /\ lastOp' = IF lastOp \in {"reset", "resetAgain"} THEN "resetAgain" ELSE "reset"
  /\ pausedProgress' = << >>
  /\ quickReset' = (quickReset \/ lastOp = "start")
  /\ UNCHANGED << mounted, captureSupported, now, snapshotsPending, error >>

\* The route selector (line 11) sets selectedRouteIndex; its watcher resets.
SelectRoute(index) ==
  /\ mounted
  /\ index # selectedRouteIndex
  /\ Commit(flushJobs([Cur EXCEPT !.selectedRouteIndex = index,
                                  !.queue = {"selectedRouteIndex"}]))
  /\ UNCHANGED calc
  /\ lastOp' = IF isAnimating THEN "selectRunning" ELSE "select"
  /\ pausedProgress' = << >>
  /\ UNCHANGED << mounted, captureSupported, now, snapshotsPending, error,
                  quickReset >>

\* The speed slider (line 45) sets animationSpeed.
SetSpeed(kmh) ==
  /\ mounted
  /\ kmh # animationSpeed
  /\ animationSpeed' = kmh
  /\ UNCHANGED calc
  /\ lastOp' = "speed"
  /\ UNCHANGED << mounted, captureSupported, now, isAnimating,
                  selectedRouteIndex, animationFrameId, framePending, progress,
                  startTime, totalRouteDistance, movingIconMarker,
                  recordingCanvas, recordedChunks, mediaRecorder, recorders,
                  downloadUrl, isRecording, captureInterval, activeTimers,
                  snapshotsPending, error, pausedProgress, quickReset >>

\* The browser runs the registered animation frame callback, dt ms after
\* the previous frame: animate(timestamp), then the watcher.
FrameTick(dt) ==
  /\ framePending
  /\ now + dt <= MaxTime
  /\ now' = now + dt
  /\ Commit(flushJobs(animate([Cur EXCEPT !.framePending = FALSE], Num(now + dt))))
  /\ UNCHANGED calc
  /\ lastOp' = "frame"
  /\ pausedProgress' = << >>
  /\ UNCHANGED << mounted, captureSupported, snapshotsPending, error, quickReset >>

\* The capture interval fires (lines 166-172): html2canvas starts a snapshot.
CaptureTick ==
  /\ activeTimers > 0
  /\ snapshotsPending < MaxSnapshots
  /\ snapshotsPending' = snapshotsPending + 1
  /\ UNCHANGED calc
  /\ lastOp' = "capture"
  /\ UNCHANGED << mounted, captureSupported, now, isAnimating,
                  selectedRouteIndex, animationSpeed, animationFrameId,
                  framePending, progress, startTime, totalRouteDistance,
                  movingIconMarker, recordingCanvas, recordedChunks,
                  mediaRecorder, recorders, downloadUrl, isRecording,
                  captureInterval, activeTimers, error, pausedProgress,
                  quickReset >>

\* a snapshot callback that, besides drawing, rewinds the animation
SnapshotDoneRewinds ==
  /\ snapshotsPending > 0
  /\ snapshotsPending' = snapshotsPending - 1
  /\ recordingCanvas' = "drawn"
  /\ progress' = Num(0)
  /\ UNCHANGED calc
  /\ lastOp' = "snapshot"
  /\ UNCHANGED << mounted, captureSupported, now, isAnimating,
                  selectedRouteIndex, animationSpeed, animationFrameId,
                  framePending, startTime, totalRouteDistance,
                  movingIconMarker, recordedChunks, mediaRecorder, recorders,
                  downloadUrl, isRecording, captureInterval, activeTimers,
                  error, pausedProgress, quickReset >>

\* The snapshot promise resolves (lines 168-171): the image is drawn on the
\* canvas canvasContext refers to at that moment.
SnapshotDone ==
  /\ snapshotsPending > 0
  /\ snapshotsPending' = snapshotsPending - 1
  /\ recordingCanvas' = "drawn"
  /\ UNCHANGED calc
  /\ lastOp' = "snapshot"
  /\ UNCHANGED << mounted, captureSupported, now, isAnimating,
                  selectedRouteIndex, animationSpeed, animationFrameId,
                  framePending, progress, startTime, totalRouteDistance,
                  movingIconMarker, recordedChunks, mediaRecorder, recorders,
                  downloadUrl, isRecording, captureInterval, activeTimers,
                  error, pausedProgress, quickReset >>

\* Lines 154-156: the dataavailable handler of any recorder appends to the
\* one recordedChunks ref.
ondataavailable(s, r, hasData) ==
  IF hasData THEN [s EXCEPT !.recordedChunks = Append(@, r)] ELSE s

\* Lines 158-161: the stop handler of any recorder builds the blob from the
\* one recordedChunks ref and publishes it.
onstop(s) == [s EXCEPT !.downloadUrl = << s.recordedChunks >>]

\* A stopped recorder finalizes: one task delivers its dataavailable event
\* (with or without data) and then its stop event.
RecorderFinalize(r, hasData) ==
  /\ recorders[r] = "stopping"
  /\ Commit([onstop(ondataavailable(Cur, r, hasData))
               EXCEPT !.recorders[r] = "inactive"])
  /\ UNCHANGED calc
  /\ lastOp' = "finalize"
  /\ UNCHANGED << mounted, captureSupported, now, snapshotsPending, error,
                  pausedProgress, quickReset >>

\* Lines 116-119: onBeforeUnmount.
Unmount ==
  /\ mounted
  /\ mounted' = FALSE
  /\ Commit(stopAnimation(Cur))
  /\ UNCHANGED calc
  /\ lastOp' = "unmount"
  /\ UNCHANGED << captureSupported, now, snapshotsPending, error,
                  pausedProgress, quickReset >>

Next ==
  \/ ToggleAnimation
  \/ ResetAnimation
  \/ \E index \in 1..Len(routeFeatures) : SelectRoute(index)
  \/ \E kmh \in Speeds : SetSpeed(kmh)
  \/ \E dt \in 1..MaxStep : FrameTick(dt)
  \/ CaptureTick
  \/ SnapshotDone
  \/ \E r \in 1..MaxSessions, hasData \in BOOLEAN : RecorderFinalize(r, hasData)
  \/ Unmount

Spec == Init /\ [][Next]_vars

(***************************************************************************)
(* An uninterrupted run: the user starts animations, picks routes between  *)
(* runs and moves the speed slider, and never pauses, resets, changes the  *)
(* route during a run or leaves the page.  The browser runs a requested    *)
(* animation frame callback.                                               *)
(***************************************************************************)
StartClick == ~isAnimating /\ ToggleAnimation

SelectIdle(index) == ~isAnimating /\ SelectRoute(index)

AnimationFrame == \E dt \in 1..MaxStep : FrameTick(dt)

LiveNext ==
  \/ StartClick
  \/ \E index \in 1..Len(routeFeatures) : SelectIdle(index)
  \/ \E kmh \in Speeds : SetSpeed(kmh)
  \/ AnimationFrame
  \/ CaptureTick
  \/ SnapshotDone
  \/ \E r \in 1..MaxSessions, hasData \in BOOLEAN : RecorderFinalize(r, hasData)

\* AnimationFrame is enabled: the guard of FrameTick for the step of 1 ms
FrameEnabled == framePending /\ now < MaxTime

\* weak fairness of AnimationFrame, its enabling condition written out
FrameFairness == []<>(~FrameEnabled) \/ []<><<AnimationFrame>>_vars

LiveSpec == Init /\ [][LiveNext]_vars /\ FrameFairness

(***************************************************************************)
(* Geometry and camera: the pure functions of the component.  Their        *)
(* results carry JavaScript numbers as coordinates.                        *)
(***************************************************************************)
\* a + b
Plus(a, b) ==
  LET x == ToNumber(a)
      y == ToNumber(b)
  IN IF x.t = "NaN" \/ y.t = "NaN" THEN NaN
     ELSE IF x.t = "Infinity" \/ y.t = "Infinity" THEN Infinity
     ELSE Rat(x.n * y.d + y.n * x.d, x.d * y.d)

\* Math.max(a, b)
MathMax(a, b) ==
  LET x == ToNumber(a)
      y == ToNumber(b)
  IN IF x.t = "NaN" \/ y.t = "NaN" THEN NaN
     ELSE IF Le(x, y) THEN y ELSE x

\* L.latLng(lat, lng) of lines 369 and 389
L_latLng(lat, lng) == [lat |-> lat, lng |-> lng]

\* a coordinate of the route, as the functions return it
AsLatLng(p) == L_latLng(Num(p.lat), Num(p.lng))

\* The loop of lines 361-372 and 380-393: the first segment i with
\* traveled + segmentDistance >= distance, if there is one.
RECURSIVE FindSegment(_, _, _, _)
FindSegment(latLngs, distance, i, traveled) ==
  IF i >= Len(latLngs)
  THEN [found |-> FALSE, i |-> i, traveled |-> traveled, segmentDistance |-> 0]
  ELSE LET segmentDistance == distanceTo(latLngs[i], latLngs[i + 1])
       IN IF Ge(Num(traveled + segmentDistance), distance)
          THEN [found |-> TRUE, i |-> i, traveled |-> traveled,
                segmentDistance |-> segmentDistance]
          ELSE FindSegment(latLngs, distance, i + 1, traveled + segmentDistance)

\* Lines 366-369 and 385-387: the point of segment f at the distance.
Interpolate(latLngs, distance, f) ==
  LET start == latLngs[f.i]
      end == latLngs[f.i + 1]
      ratio == Div(Sub(distance, Num(f.traveled)), Num(f.segmentDistance))
  IN L_latLng(Plus(Num(start.lat), Mul(Num(end.lat - start.lat), ratio)),
              Plus(Num(start.lng), Mul(Num(end.lng - start.lng), ratio)))

\* getLatLngAndRotationAtDistance without the distance <= 0 return
getLatLngAndRotationAtDistanceNoZeroCheck(latLngs, distance) ==
  LET f == FindSegment(latLngs, distance, 1, 0)
  IN IF f.found
     THEN [latLng |-> Interpolate(latLngs, distance, f), rotation |-> 0]
     ELSE [latLng |-> AsLatLng(latLngs[Len(latLngs)]), rotation |-> 0]

\* Lines 358-374.
getLatLngAndRotationAtDistance(latLngs, distance) ==
  IF Le(distance, Num(0)) THEN [latLng |-> AsLatLng(latLngs[1]), rotation |-> 0]
  ELSE
    LET f == FindSegment(latLngs, distance, 1, 0)
    IN IF f.found
       THEN [latLng |-> Interpolate(latLngs, distance, f), rotation |-> 0]
       ELSE [latLng |-> AsLatLng(latLngs[Len(latLngs)]), rotation |-> 0]

\* getCoordinatesForProgress with latLngs.slice(0, i) for slice(0, i + 1)
getCoordinatesForProgressShortSlice(latLngs, distance) ==
  IF Le(distance, Num(0)) \/ Len(latLngs) < 2
  THEN IF Len(latLngs) > 0 THEN << AsLatLng(latLngs[1]) >> ELSE << >>
  ELSE
    LET f == FindSegment(latLngs, distance, 1, 0)
    IN IF f.found
       THEN Append([k \in 1..(f.i - 1) |-> AsLatLng(latLngs[k])],
                   Interpolate(latLngs, distance, f))
       ELSE [k \in 1..Len(latLngs) |-> AsLatLng(latLngs[k])]

\* Lines 376-395.  Index i of the source is f.i - 1 here, so slice(0, i + 1)
\* is the first f.i coordinates.
getCoordinatesForProgress(latLngs, distance) ==
  IF Le(distance, Num(0)) \/ Len(latLngs) < 2
  THEN IF Len(latLngs) > 0 THEN << AsLatLng(latLngs[1]) >> ELSE << >>
  ELSE
    LET f == FindSegment(latLngs, distance, 1, 0)
    IN IF f.found
       THEN Append([k \in 1..f.i |-> AsLatLng(latLngs[k])],
                   Interpolate(latLngs, distance, f))
       ELSE [k \in 1..Len(latLngs) |-> AsLatLng(latLngs[k])]

\* lines 319-320
minZoom == 12
maxZoom == 17

\* the range of the speed slider (line 45)
SliderMin == 10
SliderMax == 300

\* the zoom with the slope of line 321 inverted
clampedZoomInverted(speed) ==
  LET zoom == Plus(Num(minZoom),
                   Mul(Div(Num(speed - 10), Num(300 - 10)), Num(maxZoom - minZoom)))
  IN MathMin(MathMax(zoom, Num(minZoom)), Num(maxZoom))

\* Lines 318-322: the zoom updateMarkerPosition passes to map.setView.
clampedZoom(speed) ==
  LET zoom == Sub(Num(maxZoom),
                  Mul(Div(Num(speed - 10), Num(300 - 10)), Num(maxZoom - minZoom)))
  IN MathMin(MathMax(zoom, Num(minZoom)), Num(maxZoom))

\* the paths and distances the geometry functions are applied to
GeoPoints == {LatLng(lat, 0) : lat \in 0..MaxCoord}

GeoPaths == UNION {[1..n -> GeoPoints] : n \in 1..MaxPathLen}

GeoDistances(latLngs) ==
  {Rat(k, DistDenom) : k \in 0..(calculateTotalDistance(latLngs) * DistDenom)}

\* the component as created, with the inputs of one application of a pure
\* function
PureInit ==
  /\ Created
  /\ \/ \E latLngs \in GeoPaths :
          \E d1 \in GeoDistances(latLngs), d2 \in GeoDistances(latLngs) :
            /\ ~Le(d2, d1)
            /\ calc = [op |-> "input", fn |-> "prefix", latLngs |-> latLngs,
                       d1 |-> d1, d2 |-> d2]
     \/ \E latLngs \in GeoPaths :
          \E d \in GeoDistances(latLngs) :
            /\ Len(latLngs) >= 2
            /\ calc = [op |-> "input", fn |-> "point", latLngs |-> latLngs,
                       d |-> d]
     \/ \E speed \in SliderMin..SliderMax :
          calc = [op |-> "input", fn |-> "zoom", speed |-> speed]

\* getCoordinatesForProgress at two distances d1 < d2 of a path
GeoPrefix ==
  /\ calc.op = "input" /\ calc.fn = "prefix"
  /\ calc' = [op |-> "prefix", latLngs |-> calc.latLngs, d1 |-> calc.d1, d2 |-> calc.d2,
              r1 |-> getCoordinatesForProgress(calc.latLngs, calc.d1),
              r2 |-> getCoordinatesForProgress(calc.latLngs, calc.d2)]
  /\ UNCHANGED << progVars, lastOp, pausedProgress, quickReset >>

\* getLatLngAndRotationAtDistance at a distance of a path of 2 or more points
GeoPoint ==
  /\ calc.op = "input" /\ calc.fn = "point"
  /\ calc' = [op |-> "point", latLngs |-> calc.latLngs, d |-> calc.d,
              r |-> getLatLngAndRotationAtDistance(calc.latLngs, calc.d)]
  /\ UNCHANGED << progVars, lastOp, pausedProgress, quickReset >>

\* the zoom of updateMarkerPosition at a speed of the slider's range
CameraZoom ==
  /\ calc.op = "input" /\ calc.fn = "zoom"
  /\ calc' = [op |-> "zoom", speed |-> calc.speed, zoom |-> clampedZoom(calc.speed)]
  /\ UNCHANGED << progVars, lastOp, pausedProgress, quickReset >>

PureNext == GeoPrefix \/ GeoPoint \/ CameraZoom

PureSpec == PureInit /\ [][PureNext]_vars

(***************************************************************************)
(* Definitions used by the properties.                                     *)
(***************************************************************************)
\* a capture session is open: the flag is set, a recorder records or a
\* capture timer ticks
SessionOpen ==
  \/ isRecording
  \/ activeTimers > 0
  \/ \E r \in 1..MaxSessions : recorders[r] = "recording"

\* the start timestamp is cleared: null, or the 0 stopAnimation leaves
Cleared(x) == x = Null \/ x = Num(0)

\* progress gained per millisecond at speed kmh on the selected route
ProgressRate(kmh) ==
  Div(Mul(kmPerHourToMetersPerMs(kmh), PacingMultiplier),
      Num(calculateTotalDistance(selectedRouteCoordinates)))

\* a + b for finite operands
Add(a, b) == Rat(a.n * b.d + b.n * a.d, a.d * b.d)

\* the timestamps an animate call can carry
Timestamps == {Undefined} \cup {Num(ts) : ts \in 0..MaxTime}

(***************************************************************************)
(* Properties.                                                             *)
(***************************************************************************)
\* C1: once a start on a route of at least 2 points has been processed
\* (toggleAnimation and the watcher's startAnimation), in a browser that
\* supports capture, the animation is Running: isAnimating is set, a frame
\* request is pending and the capture session is open.  This includes the
\* first start after mount, when startAnimation creates the marker.
C1_StartEntersRunning ==
  (lastOp = "start" /\ captureSupported)
    => (isAnimating /\ framePending /\ isRecording)

\* C2: no capture session stays open for ever: once the component is
\* unmounted, after which nothing can close a session, no recorder is
\* recording and no session is open.
C2_SessionClosedAfterUnmount ==
  ~mounted => ~SessionOpen

\* C3: after pause, reset and completion have been processed, neither a
\* frame request is pending nor is the capture timer ticking.
C3_CallbacksCancelledTogether ==
  (lastOp \in {"pause", "reset", "resetAgain"} \/ (lastOp = "frame" /\ ~isAnimating))
    => (~framePending /\ activeTimers = 0)

\* C4: the first frame tick after a resume yields a progress that is not
\* smaller than the progress at the moment of the pause.
C4_ResumeContinues ==
  [][(lastOp' = "frame" /\ pausedProgress # << >> /\ IsNum(pausedProgress[1]))
       => Ge(progress', pausedProgress[1])]_vars

\* C5: after a start that is reset at once, downloadUrl is unset and stays
\* unset until another run is started, whatever the encoder delivers.
C5_NoArtifactAfterQuickReset ==
  quickReset => downloadUrl = << >>

\* C6: on the first frame tick after a change of speed while Running,
\* progress continues from the progress before the change and gains at most
\* what the new rate yields over the time since the previous frame.
C6_SpeedChangeNoJump ==
  [][(lastOp = "speed" /\ lastOp' = "frame" /\ isAnimating /\ IsNum(progress))
       => /\ Ge(progress', progress)
          /\ Le(progress',
                Add(progress, Mul(Num(now' - now), ProgressRate(animationSpeed'))))]_vars

\* C7: when the encoder cannot be allocated, a start on a route of at least
\* 2 points, with the marker already created, still enters Running: frame
\* ticks are scheduled, no artifact is produced and no error is shown.
C7_CaptureFailureAbsorbed ==
  [][(lastOp' = "start" /\ ~captureSupported /\ movingIconMarker)
       => (isAnimating' /\ framePending' /\ downloadUrl' = << >>
           /\ error' = "null")]_vars

\* C8: the frame tick that brings progress to 1 completes in that tick:
\* isAnimating is cleared, the capture session is closed and no frame is
\* requested; and an animate call while not Running changes no state.
C8_CompletesInSameTick ==
  /\ (lastOp = "frame" /\ progress = Num(1))
       => (~isAnimating /\ ~SessionOpen /\ ~framePending)
  /\ ~isAnimating => \A ts \in Timestamps : animate(Cur, ts) = Cur

C8_Witness ==
  /\ lastOp = "frame"
  /\ progress = Num(1)
  /\ mediaRecorder > 0
  /\ recorders[mediaRecorder] = "stopping"

\* C9: a reset that follows a reset changes nothing: after either, progress
\* is 0, isAnimating is cleared, the start timestamp is cleared and no
\* capture session is open; the second reset stops no recorder.
C9_ResetIdempotent ==
  [][(lastOp' = "resetAgain")
       => /\ progress = Num(0) /\ progress' = Num(0)
          /\ ~isAnimating /\ ~isAnimating'
          /\ Cleared(startTime) /\ Cleared(startTime')
          /\ ~SessionOpen /\ ~SessionOpen'
          /\ recorders' = recorders
          /\ UNCHANGED << selectedRouteIndex, animationSpeed, animationFrameId,
                          framePending, totalRouteDistance, movingIconMarker,
                          recordingCanvas, recordedChunks, mediaRecorder,
                          downloadUrl, isRecording, captureInterval,
                          activeTimers, snapshotsPending, error, mounted >>]_vars

C9_Witness ==
  /\ lastOp = "resetAgain"
  /\ mediaRecorder > 0
  /\ recorders[mediaRecorder] = "stopping"

\* C10: a start on a route of fewer than 2 points does not transition: once
\* processed, isAnimating is cleared, no capture session has been opened,
\* no frame request is pending, and progress and downloadUrl are unchanged.
C10_ShortPathStartRefused ==
  [][(lastOp' = "startRefused")
       => /\ ~isAnimating'
          /\ ~framePending'
          /\ ~SessionOpen'
          /\ UNCHANGED << progress, downloadUrl, mediaRecorder, recorders,
                          isRecording, activeTimers >>]_vars

C10_Witness ==
  /\ lastOp = "startRefused"
  /\ Len(selectedRouteCoordinates) < 2
  /\ downloadUrl # << >>

\* C11: after a start that was refused because the route has fewer than 2
\* points, the error observable holds a message.
C11_RefusedStartShowsError ==
  lastOp = "startRefused" => error # "null"

\* C12: once a change of the selected route while Running has been
\* processed, isAnimating is cleared, progress is 0, the start timestamp is
\* cleared, the capture session is closed and the frame request is
\* cancelled; and a frame tick only ever runs from a Running state, so none
\* advances progress on the new route before the next start.
C12_RouteChangeResets ==
  /\ [](lastOp = "selectRunning"
          => /\ ~isAnimating
             /\ progress = Num(0)
             /\ Cleared(startTime)
             /\ ~SessionOpen
             /\ ~framePending
             /\ animationFrameId = "null")
  /\ [][lastOp' = "frame" => isAnimating]_vars

C12_Witness ==
  /\ lastOp = "selectRunning"
  /\ mediaRecorder > 0
  /\ recorders[mediaRecorder] = "stopping"
  /\ captureInterval = "cleared"

\* C13: at most one recorder is recording and at most one capture timer is
\* ticking; a start that finds a session active creates neither a recorder
\* nor a timer.
C13_AtMostOneSession ==
  /\ [](/\ Cardinality({r \in 1..MaxSessions : recorders[r] = "recording"}) <= 1
        /\ activeTimers <= 1)
  /\ [][(lastOp' = "start" /\ isRecording /\ movingIconMarker)
          => UNCHANGED << mediaRecorder, recorders, activeTimers >>]_vars

C13_Witness ==
  /\ lastOp = "start"
  /\ isAnimating
  /\ isRecording
  /\ pausedProgress # << >>
  /\ mediaRecorder = 1

\* C14: downloadUrl goes from unset to set only in the task that delivers
\* the stop event of a recorder on which stopRecording was executed, never
\* for a recorder that is still recording.
C14_ArtifactAfterClose ==
  [][(downloadUrl = << >> /\ downloadUrl' # << >>)
       => /\ lastOp' = "finalize"
          /\ \E r \in 1..MaxSessions :
               /\ recorders[r] = "stopping"
               /\ recorders'[r] = "inactive"]_vars

C14_Witness ==
  /\ lastOp = "finalize"
  /\ downloadUrl # << >>
  /\ downloadUrl[1] # << >>

\* C18: progress is a number between 0 and 1 in every reachable state.
C18_ProgressInUnitInterval ==
  IsNum(progress) /\ Ge(progress, Num(0)) /\ Le(progress, Num(1))

\* C19: a capture tick, and the snapshot it started when it completes,
\* leave the animation state as it was: isAnimating, progress, the start
\* timestamp, the speed, the selected route and the frame request.
C19_CaptureLeavesAnimationState ==
  [][(lastOp' \in {"capture", "snapshot"})
       => UNCHANGED << isAnimating, progress, startTime, animationSpeed,
                       selectedRouteIndex, animationFrameId, framePending,
                       totalRouteDistance, downloadUrl, recordedChunks,
                       recorders, isRecording >>]_vars

C19_Witness ==
  /\ lastOp = "snapshot"
  /\ recordingCanvas = "drawn"
  /\ isAnimating
  /\ IsNum(progress)
  /\ progress # Num(0)

\* |x| of a number
RatAbs(x) == IF x.n < 0 THEN Rat(-x.n, x.d) ELSE x

\* the cumulative length of a sequence of returned coordinates
RECURSIVE LengthFrom(_, _)
LengthFrom(points, i) ==
  IF i >= Len(points) THEN Num(0)
  ELSE Plus(Plus(RatAbs(Sub(points[i].lat, points[i + 1].lat)),
                 RatAbs(Sub(points[i].lng, points[i + 1].lng))),
            LengthFrom(points, i + 1))

CumulativeLength(points) == LengthFrom(points, 1)

\* C15: for d1 < d2 in [0, totalDistance], the result for d1 is a strict
\* prefix of the result for d2: fewer points, the same points in the same
\* places, and a smaller cumulative length.
C15_StrictPrefix ==
  calc.op = "prefix"
    => /\ Len(calc.r1) < Len(calc.r2)
       /\ calc.r1 = SubSeq(calc.r2, 1, Len(calc.r1))
       /\ ~Le(CumulativeLength(calc.r2), CumulativeLength(calc.r1))

\* C15 as amended: for d1 < d2 in [0, totalDistance], the result for d1 has
\* at most as many points as the result for d2 and a strictly smaller
\* cumulative length, and its points but the last, interpolated one are a
\* prefix of the result for d2.
C15_PrefixUpToLastPoint ==
  calc.op = "prefix"
    => /\ Len(calc.r1) >= 1
       /\ Len(calc.r1) <= Len(calc.r2)
       /\ SubSeq(calc.r1, 1, Len(calc.r1) - 1)
            = SubSeq(calc.r2, 1, Len(calc.r1) - 1)
       /\ CumulativeLength(calc.r1) = calc.d1
       /\ CumulativeLength(calc.r2) = calc.d2
       /\ ~Le(CumulativeLength(calc.r2), CumulativeLength(calc.r1))

\* two distances inside the second segment of a path with a zero-length
\* first segment
C15_Witness ==
  /\ calc.op = "prefix"
  /\ Len(calc.latLngs) = 3
  /\ calc.latLngs[1] = calc.latLngs[2]
  /\ Len(calc.r1) = 3
  /\ Len(calc.r2) = 3
  /\ calc.r1 # calc.r2

\* C16: on a path of 2 or more points, zero-length segments included, the
\* point at distance 0 is the first coordinate, the point at the total
\* distance is the last coordinate, and for no distance in between is the
\* ratio a division by a zero segment length: the result is a pair of
\* numbers.
C16_EndpointsAndNoZeroDivision ==
  calc.op = "point"
    => LET latLngs == calc.latLngs
           f == FindSegment(latLngs, calc.d, 1, 0)
       IN /\ calc.d = Num(0) => calc.r.latLng = AsLatLng(latLngs[1])
          /\ calc.d = Num(calculateTotalDistance(latLngs))
               => calc.r.latLng = AsLatLng(latLngs[Len(latLngs)])
          /\ IsNum(calc.r.latLng.lat) /\ IsNum(calc.r.latLng.lng)
          /\ (~Le(calc.d, Num(0)) /\ f.found) => f.segmentDistance # 0

\* the total distance of a path that ends in a zero-length segment
C16_Witness ==
  /\ calc.op = "point"
  /\ Len(calc.latLngs) = 3
  /\ calc.latLngs[2] = calc.latLngs[3]
  /\ calc.latLngs[1] # calc.latLngs[2]
  /\ calc.d = Num(calculateTotalDistance(calc.latLngs))
  /\ calc.r.latLng = AsLatLng(calc.latLngs[3])

\* C17: for every speed of 10..300 the zoom lies in [minZoom, maxZoom], is
\* maxZoom at 10 and minZoom at 300, and no greater speed has a greater zoom.
C17_ZoomWithinBounds ==
  calc.op = "zoom"
    => /\ Ge(calc.zoom, Num(minZoom)) /\ Le(calc.zoom, Num(maxZoom))
       /\ calc.speed = SliderMin => calc.zoom = Num(maxZoom)
       /\ calc.speed = SliderMax => calc.zoom = Num(minZoom)
       /\ \A faster \in calc.speed..SliderMax :
            Le(clampedZoom(faster), calc.zoom)

C17_Witness ==
  /\ calc.op = "zoom"
  /\ calc.speed = 155
  /\ calc.zoom = Rat(29, 2)

\* Running on a path of at least 2 points, with a frame requested
Running ==
  /\ isAnimating
  /\ framePending
  /\ Len(selectedRouteCoordinates) >= 2

\* the run has reached progress 1 and stopped, its capture session closed
Completed ==
  /\ ~isAnimating
  /\ ~framePending
  /\ progress = Num(1)
  /\ ~SessionOpen

\* the clock has reached MaxTime before the run reached progress 1
ClockExhausted ==
  /\ now = MaxTime
  /\ Running
  /\ ~Ge(progress, Num(1))

\* C20: in an uninterrupted run whose frames keep firing, a Running
\* animation eventually reaches progress 1 and stops, with isAnimating
\* cleared and the capture session closed, at every speed, under speed
\* changes and on a path of total distance 0.  While it runs its start
\* timestamp stays as the first frame set it, and each frame sets progress
\* to the elapsed time times the rate of the current speed.
C20_RunCompletes ==
  /\ Running ~> (Completed \/ ClockExhausted)
  /\ [][(isAnimating /\ isAnimating' /\ IsNum(startTime))
          => startTime' = startTime]_vars
  /\ [][(lastOp' = "frame" /\ isAnimating')
          => /\ IsNum(startTime')
             /\ progress' = Mul(Sub(Num(now'), startTime'),
                                ProgressRate(animationSpeed))]_vars

\* a run on the path of total distance 0 has completed
C20_Witness ==
  /\ Completed
  /\ lastOp = "frame"
  /\ selectedRouteIndex = 3
  /\ calculateTotalDistance(selectedRouteCoordinates) = 0

\* the sessions whose chunks an artifact holds
SessionsOf(artifact) == {artifact[i] : i \in DOMAIN artifact}

\* C21: the artifact built when a session's recorder finalizes holds the
\* chunks of that one session only, also when a new session was started
\* between stopRecording and the recorder's dataavailable and stop events,
\* and a recorder that finalizes while a new run is Running does not set
\* downloadUrl.
C21_ArtifactOfOneSession ==
  /\ downloadUrl # << >> => Cardinality(SessionsOf(downloadUrl[1])) <= 1
  /\ (lastOp = "finalize" /\ isAnimating /\ framePending) => downloadUrl = << >>

====
